---- MODULE Spec2Model ----
(***************************************************************************)
(* Model of radicale/auth/ldap.py: the LDAP authentication backend of      *)
(* Radicale.  One validator instance (class Auth) is shared by the request *)
(* threads of the server; every thread calls login(login, password), which *)
(* dispatches on _ldap_version to _login2 (python-ldap) or _login3 (ldap3).*)
(*                                                                         *)
(* Every call into the LDAP library is one step.  What the directory       *)
(* answers (bind accepted, bind rejected, exception, the entries a search  *)
(* returns) is the input of that step and is chosen nondeterministically.  *)
(* Library names are taken as resolved: the model follows the control flow *)
(* of the statements of _login2 and _login3 as they are written.           *)
(* SpecConstruct follows __init__ and the dispatch of login by the letter  *)
(* of the file instead: which attributes __init__ assigns, and which names *)
(* login looks up.                                                         *)
(* python-ldap leaves an attribute that the entry does not hold out of the *)
(* attribute dictionary; ldap3 returns a requested attribute without value *)
(* as an empty list.                                                       *)
(***************************************************************************)
EXTENDS Integers, Sequences, FiniteSets, TLC

VARIABLES
    ldap_version,      \* self._ldap_version: 2 (python-ldap) or 3 (ldap3); 0 while
                       \* __init__ has not assigned it
    ldap_load_groups,  \* self._ldap_load_groups
    ldap_groups,       \* self._ldap_groups: [defined, value]; the attribute
                       \* does not exist before the first store
    groups_writer,     \* history: the call <<thread, call number>> that stored ldap_groups
    construction,      \* __init__: its position, what it finds installed and configured,
                       \* and what it has assigned of self._ldap_use_ssl and self._tls
    frame              \* frame[t]: the login call of thread t: arguments, locals,
                       \* position, connections, history and result

vars == <<ldap_version, ldap_load_groups, ldap_groups, groups_writer, construction, frame>>

----------------------------------------------------------------------------
(* Bounds of the model *)

\* calls of login one thread makes
MaxCalls == 2
\* entries one search returns at most
MaxEntries == 2

Threads == {1, 2}

----------------------------------------------------------------------------
(* Configuration and the directory's data *)

\* configuration.get("auth", "ldap_reader_dn")
ldap_reader_dn == "cn=reader,dc=x"
\* configuration.get("auth", "ldap_secret")
ldap_secret == "rs"

\* the (login, password) pairs the callers supply
Credentials ==
    { [login |-> "alice", password |-> "pa"],
      [login |-> "bob",   password |-> "pb"] }

\* memberOf values, as the characters of the DN
GroupA  == <<"c", "n", "=", "a", ",", "o", "=", "x">>
GroupU  == <<"c", "n", "=", "u", ",", "o", "=", "x">>
GroupA2 == <<"c", "n", "=", "a", ",", "o", "=", "y">>

\* the entries of the directory: uid is the name the search filter matches, dn and
\* the attribute dictionary are what a search returns of the entry
Entries ==
    { [uid |-> "alice", dn |-> "uid=alice,dc=x",
       hasMemberOf |-> TRUE, memberOf |-> <<GroupA, GroupU>>],
      [uid |-> "alice", dn |-> "uid=alice,ou=old,dc=x",
       hasMemberOf |-> FALSE, memberOf |-> <<>>],
      [uid |-> "bob", dn |-> "uid=bob,dc=x",
       hasMemberOf |-> TRUE, memberOf |-> <<GroupA, GroupA2>>],
      [uid |-> "bob", dn |-> "uid=bob,ou=old,dc=x",
       hasMemberOf |-> FALSE, memberOf |-> <<>>] }

RECURSIVE SeqsUpTo(_, _)
SeqsUpTo(S, n) ==
    IF n = 0 THEN {<<>>}
    ELSE LET shorter == SeqsUpTo(S, n - 1)
         IN  shorter \cup {Append(s, e) : s \in {x \in shorter : Len(x) = n - 1}, e \in S}

\* self._ldap_filter.format(login): the filter selects the entries of that name
Filter(login) == login

\* what a search with the filter can return: any entries that match, in any order
SearchResults(filter) == SeqsUpTo({e \in Entries : e.uid = filter}, MaxEntries)

\* outcomes of a library call that returns nothing of interest
CallOutcomes == {"ok", "error"}
\* outcomes of a bind: accepted, rejected as invalid credentials, any other failure
BindOutcomes == {"ok", "invalid", "error"}
\* outcomes of ldap3.Server(...) / ldap3.Connection(...)
ConnectOutcomes == {"ok", "socket_error", "error"}

----------------------------------------------------------------------------
(* Helpers *)

RECURSIVE SeqToSet(_)
SeqToSet(s) == IF s = <<>> THEN {} ELSE {Head(s)} \cup SeqToSet(Tail(s))

\* s.split(',')[0]
RECURSIVE SplitFirst(_)
SplitFirst(s) ==
    IF s = <<>> \/ Head(s) = "," THEN <<>>
    ELSE <<Head(s)>> \o SplitFirst(Tail(s))

\* s[3:]
DropThree(s) == SubSeq(s, 4, Len(s))

\* t.decode('utf-8').split(',')[0][3:]
GroupName(t) == DropThree(SplitFirst(t))

\* _login2, lines 105-108: set of the parsed memberOf values
Groups2(entry) == {GroupName(entry.memberOf[i]) : i \in 1..Len(entry.memberOf)}

\* _login3, lines 148-151: set of the memberOf values as they are
Groups3(entry) == SeqToSet(entry.memberOf)

NoGroups == [defined |-> FALSE, value |-> {}]
NoWriter == <<0, 0>>
NoOutcome == [kind |-> "none", value |-> ""]

\* history: the arguments, the operations with the directory's answers and the
\* outcome of a call
CallRecord(f) ==
    [ login |-> f.login, password |-> f.password,
      ops |-> f.ops, res |-> f.res, outcome |-> f.outcome ]
NoCall ==
    [ login |-> "", password |-> "", ops |-> <<>>, res |-> <<>>, outcome |-> NoOutcome ]

\* a frame before any call; prev is the history of the thread's call before this one
IdleFrame ==
    [ pc |-> "idle", calls |-> 0,
      login |-> "", password |-> "",
      res |-> <<>>, user_dn |-> "",
      reader_conn |-> "none", user_conn |-> "none",
      ops |-> <<>>, log |-> <<>>,
      outcome |-> NoOutcome,
      groups_at_end |-> NoGroups,
      prev |-> NoCall ]

\* return v; groups_at_end is self._ldap_groups as the call ends
Return(f, v) ==
    [f EXCEPT !.pc = "done",
              !.outcome = [kind |-> "return", value |-> v],
              !.groups_at_end = ldap_groups]
\* an exception e leaves the call
Raise(f, e) ==
    [f EXCEPT !.pc = "done",
              !.outcome = [kind |-> "raise", value |-> e],
              !.groups_at_end = ldap_groups]

\* a debug line that shows the credential of the reader bind
LogUserWithSecret(dn) == [line |-> "LDAP Auth user", dn |-> ldap_secret, groups |-> {}]
\* logger.debug("LDAP Auth user: %s", user_dn)
LogUser(dn) == [line |-> "LDAP Auth user", dn |-> dn, groups |-> {}]
\* logger.debug("LDAP Auth groups of user: %s", ",".join(self._ldap_groups))
LogGroups(g) == [line |-> "LDAP Auth groups of user", dn |-> "", groups |-> g]

\* history: an operation of the call on one of its connections, with its outcome
\* (dn and secret of a bind, n the number of entries of a search, attrs the
\* attributes a search asks for)
Op(f, op, conn, dn, secret, n, r) ==
    [f EXCEPT !.ops = Append(@, [op |-> op, conn |-> conn, dn |-> dn,
                                 secret |-> secret, n |-> n, attrs |-> {},
                                 result |-> r])]
Connect(f, conn, r) == Op(f, "connect", conn, "", "", 0, r)
Bind(f, conn, dn, secret, r) == Op(f, "bind", conn, dn, secret, 0, r)
\* attrlist=['memberOf'] (line 86), attributes=['memberOf'] (line 133)
SearchAttributes == {"memberOf"}
Search(f, n, r) ==
    LET g == Op(f, "search", "reader", "", "", n, r)
    IN  [g EXCEPT !.ops[Len(g.ops)].attrs = SearchAttributes]
Unbind(f, conn, r) == Op(f, "unbind", conn, "", "", 0, r)

----------------------------------------------------------------------------
(* The state after construction *)

\* the five settings ldap3.Tls is built from, lines 62-73
TlsFields ==
    { "ldap_local_private_key_file", "ldap_local_certificate_file",
      "ldap_tls_version", "ldap_tls_validate", "ldap_ca_certs_file" }

\* an instance for plain transport: ldap_use_ssl is off, lines 56-60
PlainConstruction(version) ==
    [ pc |-> "constructed",
      has_ldap3 |-> (version = 3), has_ldap |-> (version = 2),
      use_ssl_conf |-> "False", resolvable |-> TlsFields,
      use_ssl |-> FALSE, tls |-> FALSE ]

Init ==
    /\ ldap_version \in {2, 3}
    /\ ldap_load_groups \in BOOLEAN
    /\ ldap_groups = NoGroups
    /\ groups_writer = NoWriter
    /\ construction = PlainConstruction(ldap_version)
    /\ frame = [t \in Threads |-> IdleFrame]

----------------------------------------------------------------------------
(* login, lines 158-166 *)

\* a login that answers from the group set an earlier call left in the instance
LoginDispatchCached(f, c) ==
    LET g == [ IdleFrame EXCEPT
                 !.calls = f.calls + 1,
                 !.login = c.login,
                 !.password = c.password,
                 !.prev = CallRecord(f),
                 !.pc = IF ldap_version = 2 THEN "l2_init_reader" ELSE "l3_connect" ]
    IN  IF ldap_groups.defined THEN Return(g, c.login) ELSE g

LoginDispatch(f, c) ==
    [ IdleFrame EXCEPT
        !.calls = f.calls + 1,
        !.login = c.login,
        !.password = c.password,
        !.prev = CallRecord(f),
        !.pc = IF ldap_version = 2 THEN "l2_init_reader" ELSE "l3_connect" ]

Login(t) ==
    /\ frame[t].pc \in {"idle", "done"}
    /\ frame[t].calls < MaxCalls
    /\ \E c \in Credentials : frame' = [frame EXCEPT ![t] = LoginDispatch(frame[t], c)]
    /\ UNCHANGED <<ldap_version, ldap_load_groups, ldap_groups, groups_writer, construction>>

----------------------------------------------------------------------------
(* _login2, lines 78-113: python-ldap *)

\* lines 81-83: ldap.initialize and the options, inside the first try
Login2InitReader(f, r) ==
    LET g == Connect(f, "reader", r)
    IN  IF r = "ok"
        THEN [g EXCEPT !.pc = "l2_bind_reader", !.reader_conn = "init"]
        ELSE Raise(g, "RuntimeError")

\* line 84: conn.simple_bind_s(reader dn, secret); any exception is caught at line 94
Login2BindReader(f, r) ==
    LET g == Bind(f, "reader", ldap_reader_dn, ldap_secret, r)
    IN  CASE r = "ok"      -> [g EXCEPT !.pc = "l2_search", !.reader_conn = "bound"]
          [] r = "invalid" -> Raise([g EXCEPT !.reader_conn = "open"], "RuntimeError")
          [] OTHER         -> Raise(g, "RuntimeError")

\* mutant of Login2Search: the test of lines 87-89 for no entry is missing, and
\* res[0][0] raises IndexError inside the first try
Login2SearchNoEmptyTest(f, r, found) ==
    LET g == Search(f, Len(found), r)
    IN  CASE r # "ok"       -> Raise(g, "RuntimeError")
          [] Len(found) = 0 -> Raise(g, "RuntimeError")
          [] OTHER          -> [g EXCEPT !.pc = "l2_unbind_reader",
                                         !.res = found,
                                         !.user_dn = found[1].dn,
                                         !.log = Append(@, LogUser(found[1].dn))]

\* user_dn is taken from the last entry of the result
Login2SearchLast(f, r, found) ==
    LET g == Search(f, Len(found), r)
    IN  CASE r # "ok"       -> Raise(g, "RuntimeError")
          [] Len(found) = 0 -> Return(g, "")
          [] OTHER          -> [g EXCEPT !.pc = "l2_unbind_reader",
                                         !.res = found,
                                         !.user_dn = found[Len(found)].dn,
                                         !.log = Append(@, LogUser(found[Len(found)].dn))]

\* lines 86-91: search_s, the test for no entry, user_dn = res[0][0], the debug line
Login2Search(f, r, found) ==
    LET g == Search(f, Len(found), r)
    IN  CASE r # "ok"       -> Raise(g, "RuntimeError")
          [] Len(found) = 0 -> Return(g, "")
          [] OTHER          -> [g EXCEPT !.pc = "l2_unbind_reader",
                                         !.res = found,
                                         !.user_dn = found[1].dn,
                                         !.log = Append(@, LogUser(found[1].dn))]

\* line 93: conn.unbind(), still inside the first try
Login2UnbindReader(f, r) ==
    LET g == Unbind(f, "reader", r)
    IN  IF r = "ok"
        THEN [g EXCEPT !.pc = "l2_init_user", !.reader_conn = "closed"]
        ELSE Raise(g, "RuntimeError")

\* lines 99-101: the second ldap.initialize; only INVALID_CREDENTIALS is caught
Login2InitUser(f, r) ==
    LET g == Connect(f, "user", r)
    IN  IF r = "ok"
        THEN [g EXCEPT !.pc = "l2_bind_user", !.user_conn = "init"]
        ELSE Raise(g, "LDAPError")

\* mutant of Login2BindUser: the handler of INVALID_CREDENTIALS passes instead of
\* returning, and the call goes on as after an accepted bind
Login2BindUserPassesInvalid(f, r) ==
    LET g == Bind(f, "user", f.user_dn, f.password, r)
    IN  CASE r = "ok"      -> [g EXCEPT !.pc = "l2_groups", !.user_conn = "bound"]
          [] r = "invalid" -> [g EXCEPT !.pc = "l2_groups", !.user_conn = "open"]
          [] OTHER         -> Raise(g, "LDAPError")

\* line 102 with the handler of lines 112-113
Login2BindUser(f, r) ==
    LET g == Bind(f, "user", f.user_dn, f.password, r)
    IN  CASE r = "ok"      -> [g EXCEPT !.pc = "l2_groups", !.user_conn = "bound"]
          [] r = "invalid" -> Return([g EXCEPT !.user_conn = "open"], "")
          [] OTHER         -> Raise(g, "LDAPError")

\* lines 103-108: res[0][1]['memberOf'] raises KeyError when the key is missing
Login2LoadGroups(f) ==
    CASE ~ldap_load_groups     -> [f EXCEPT !.pc = "l2_unbind_user"]
      [] ~f.res[1].hasMemberOf -> Raise(f, "KeyError")
      [] OTHER                 -> [f EXCEPT !.pc = "l2_log_groups"]

\* line 109: the debug line reads self._ldap_groups back
Login2LogGroups(f) ==
    [f EXCEPT !.pc = "l2_unbind_user", !.log = Append(@, LogGroups(ldap_groups.value))]

\* line 108: whether self._ldap_groups is assigned by this call
Login2Stores(f) == ldap_load_groups /\ f.res[1].hasMemberOf

\* lines 110-111: conn.unbind(); return login
Login2UnbindUser(f, r) ==
    LET g == Unbind(f, "user", r)
    IN  IF r = "ok"
        THEN Return([g EXCEPT !.user_conn = "closed"], f.login)
        ELSE Raise(g, "LDAPError")

Unshared == <<ldap_version, ldap_load_groups, ldap_groups, groups_writer, construction>>

L2InitReader(t) ==
    /\ frame[t].pc = "l2_init_reader"
    /\ \E r \in CallOutcomes : frame' = [frame EXCEPT ![t] = Login2InitReader(@, r)]
    /\ UNCHANGED Unshared

L2BindReader(t) ==
    /\ frame[t].pc = "l2_bind_reader"
    /\ \E r \in BindOutcomes : frame' = [frame EXCEPT ![t] = Login2BindReader(@, r)]
    /\ UNCHANGED Unshared

L2Search(t) ==
    /\ frame[t].pc = "l2_search"
    /\ \E r \in CallOutcomes, found \in SearchResults(Filter(frame[t].login)) :
          /\ r = "error" => found = <<>>
          /\ frame' = [frame EXCEPT ![t] = Login2Search(@, r, found)]
    /\ UNCHANGED Unshared

L2UnbindReader(t) ==
    /\ frame[t].pc = "l2_unbind_reader"
    /\ \E r \in CallOutcomes : frame' = [frame EXCEPT ![t] = Login2UnbindReader(@, r)]
    /\ UNCHANGED Unshared

L2InitUser(t) ==
    /\ frame[t].pc = "l2_init_user"
    /\ \E r \in CallOutcomes : frame' = [frame EXCEPT ![t] = Login2InitUser(@, r)]
    /\ UNCHANGED Unshared

L2BindUser(t) ==
    /\ frame[t].pc = "l2_bind_user"
    /\ \E r \in BindOutcomes : frame' = [frame EXCEPT ![t] = Login2BindUser(@, r)]
    /\ UNCHANGED Unshared

L2LoadGroups(t) ==
    /\ frame[t].pc = "l2_groups"
    /\ frame' = [frame EXCEPT ![t] = Login2LoadGroups(@)]
    /\ IF Login2Stores(frame[t])
       THEN /\ ldap_groups' = [defined |-> TRUE, value |-> Groups2(frame[t].res[1])]
            /\ groups_writer' = <<t, frame[t].calls>>
       ELSE UNCHANGED <<ldap_groups, groups_writer>>
    /\ UNCHANGED <<ldap_version, ldap_load_groups, construction>>

L2LogGroups(t) ==
    /\ frame[t].pc = "l2_log_groups"
    /\ frame' = [frame EXCEPT ![t] = Login2LogGroups(@)]
    /\ UNCHANGED Unshared

L2UnbindUser(t) ==
    /\ frame[t].pc = "l2_unbind_user"
    /\ \E r \in CallOutcomes : frame' = [frame EXCEPT ![t] = Login2UnbindUser(@, r)]
    /\ UNCHANGED Unshared

----------------------------------------------------------------------------
(* _login3, lines 115-156: ldap3 *)

\* lines 117-123: LDAPSocketOpenError becomes RuntimeError; any other exception is
\* passed over and conn is unbound at line 125
Login3Connect(f, r) ==
    LET g == Connect(f, "reader", r)
    IN  CASE r = "ok"           -> [g EXCEPT !.pc = "l3_bind_reader", !.reader_conn = "init"]
          [] r = "socket_error" -> Raise(g, "RuntimeError")
          [] OTHER              -> Raise(g, "UnboundLocalError")

\* mutant of Login3BindReader: the result of conn.bind() is not tested
Login3BindReaderUntested(f, r) ==
    LET g == Bind(f, "reader", ldap_reader_dn, ldap_secret, r)
    IN  CASE r = "ok"      -> [g EXCEPT !.pc = "l3_search", !.reader_conn = "bound"]
          [] r = "invalid" -> [g EXCEPT !.pc = "l3_search", !.reader_conn = "open"]
          [] OTHER         -> Raise(g, "LDAPException")

\* lines 125-126: conn.bind() returns False when the bind is rejected; an exception
\* of bind() is not caught
Login3BindReader(f, r) ==
    LET g == Bind(f, "reader", ldap_reader_dn, ldap_secret, r)
    IN  CASE r = "ok"      -> [g EXCEPT !.pc = "l3_search", !.reader_conn = "bound"]
          [] r = "invalid" -> Raise([g EXCEPT !.reader_conn = "open"], "RuntimeError")
          [] OTHER         -> Raise(g, "LDAPException")

\* an exception of conn.search is taken for an empty result
Login3SearchPassed(f, r, found) ==
    LET g == Search(f, Len(found), r)
    IN  CASE r # "ok"       -> Return(g, "")
          [] Len(found) = 0 -> Return(g, "")
          [] OTHER          -> [g EXCEPT !.pc = "l3_unbind_reader", !.res = found]

\* lines 129-137: conn.search and the test for no entry, outside any try
Login3Search(f, r, found) ==
    LET g == Search(f, Len(found), r)
    IN  CASE r # "ok"       -> Raise(g, "LDAPException")
          [] Len(found) = 0 -> Return(g, "")
          [] OTHER          -> [g EXCEPT !.pc = "l3_unbind_reader", !.res = found]

\* a failure of conn.unbind() is passed over and the call goes on
Login3UnbindReaderPassed(f, r) ==
    LET g == Unbind(f, "reader", r)
    IN  [g EXCEPT !.pc = "l3_connect_user",
                  !.reader_conn = IF r = "ok" THEN "closed" ELSE @,
                  !.user_dn = f.res[1].dn]

\* lines 139-141: user_entry = entries[0], conn.unbind(), user_dn = user_entry['dn']
Login3UnbindReader(f, r) ==
    LET g == Unbind(f, "reader", r)
    IN  IF r = "ok"
        THEN [g EXCEPT !.pc = "l3_connect_user",
                       !.reader_conn = "closed",
                       !.user_dn = f.res[1].dn]
        ELSE Raise(g, "LDAPException")

\* line 144 with the handler of lines 154-156: the exception is passed over
Login3ConnectUser(f, r) ==
    LET g == Connect(f, "user", r)
    IN  IF r = "ok"
        THEN [g EXCEPT !.pc = "l3_bind_user", !.user_conn = "init"]
        ELSE Return(g, "")

\* mutant of Login3BindUser: the result of conn.bind() is not tested
Login3BindUserUntested(f, r) ==
    LET g == Bind(f, "user", f.user_dn, f.password, r)
    IN  CASE r = "ok"      -> [g EXCEPT !.pc = "l3_groups", !.user_conn = "bound"]
          [] r = "invalid" -> [g EXCEPT !.pc = "l3_groups", !.user_conn = "open"]
          [] OTHER         -> Return(g, "")

\* lines 145-146 with the handler of lines 154-156
Login3BindUser(f, r) ==
    LET g == Bind(f, "user", f.user_dn, f.password, r)
    IN  CASE r = "ok"      -> [g EXCEPT !.pc = "l3_groups", !.user_conn = "bound"]
          [] r = "invalid" -> Return([g EXCEPT !.user_conn = "open"], "")
          [] OTHER         -> Return(g, "")

\* lines 147-151
Login3LoadGroups(f) == [f EXCEPT !.pc = "l3_unbind_user"]

\* line 151: whether self._ldap_groups is assigned by this call
Login3Stores(f) == ldap_load_groups

\* lines 152-153 with the handler of lines 154-156
Login3UnbindUser(f, r) ==
    LET g == Unbind(f, "user", r)
    IN  IF r = "ok"
        THEN Return([g EXCEPT !.user_conn = "closed"], f.login)
        ELSE Return(g, "")

L3Connect(t) ==
    /\ frame[t].pc = "l3_connect"
    /\ \E r \in ConnectOutcomes : frame' = [frame EXCEPT ![t] = Login3Connect(@, r)]
    /\ UNCHANGED Unshared

L3BindReader(t) ==
    /\ frame[t].pc = "l3_bind_reader"
    /\ \E r \in BindOutcomes : frame' = [frame EXCEPT ![t] = Login3BindReader(@, r)]
    /\ UNCHANGED Unshared

L3Search(t) ==
    /\ frame[t].pc = "l3_search"
    /\ \E r \in CallOutcomes, found \in SearchResults(Filter(frame[t].login)) :
          /\ r = "error" => found = <<>>
          /\ frame' = [frame EXCEPT ![t] = Login3Search(@, r, found)]
    /\ UNCHANGED Unshared

L3UnbindReader(t) ==
    /\ frame[t].pc = "l3_unbind_reader"
    /\ \E r \in CallOutcomes : frame' = [frame EXCEPT ![t] = Login3UnbindReader(@, r)]
    /\ UNCHANGED Unshared

L3ConnectUser(t) ==
    /\ frame[t].pc = "l3_connect_user"
    /\ \E r \in CallOutcomes : frame' = [frame EXCEPT ![t] = Login3ConnectUser(@, r)]
    /\ UNCHANGED Unshared

L3BindUser(t) ==
    /\ frame[t].pc = "l3_bind_user"
    /\ \E r \in BindOutcomes : frame' = [frame EXCEPT ![t] = Login3BindUser(@, r)]
    /\ UNCHANGED Unshared

L3LoadGroups(t) ==
    /\ frame[t].pc = "l3_groups"
    /\ frame' = [frame EXCEPT ![t] = Login3LoadGroups(@)]
    /\ IF Login3Stores(frame[t])
       THEN /\ ldap_groups' = [defined |-> TRUE, value |-> Groups3(frame[t].res[1])]
            /\ groups_writer' = <<t, frame[t].calls>>
       ELSE UNCHANGED <<ldap_groups, groups_writer>>
    /\ UNCHANGED <<ldap_version, ldap_load_groups, construction>>

L3UnbindUser(t) ==
    /\ frame[t].pc = "l3_unbind_user"
    /\ \E r \in CallOutcomes : frame' = [frame EXCEPT ![t] = Login3UnbindUser(@, r)]
    /\ UNCHANGED Unshared

----------------------------------------------------------------------------
(* __init__, lines 40-76, and the dispatch of login as the file spells it *)

\* self._ldap_version before __init__ assigns it: line 37 annotates the name and
\* gives the class no attribute
Unassigned == 0

\* what the configuration holds for ldap_use_ssl; get raises when it holds nothing
UseSslConf == {"True", "False", "missing"}

\* the instance as __init__ starts: the libraries installed and the settings the
\* configuration resolves are the inputs of the construction
InitNew ==
    /\ ldap_version = Unassigned
    /\ ldap_load_groups = FALSE
    /\ ldap_groups = NoGroups
    /\ groups_writer = NoWriter
    /\ construction \in [ pc : {"import"},
                          has_ldap3 : BOOLEAN, has_ldap : BOOLEAN,
                          use_ssl_conf : UseSslConf, resolvable : SUBSET TlsFields,
                          use_ssl : {FALSE}, tls : {FALSE} ]
    /\ frame = [t \in Threads |-> IdleFrame]

\* lines 42-49: import ldap3, else import ldap and _ldap_version = 2, else raise
InitImport ==
    /\ construction.pc = "import"
    /\ IF construction.has_ldap3
         THEN /\ construction' = [construction EXCEPT !.pc = "config"]
              /\ UNCHANGED ldap_version
         ELSE IF construction.has_ldap
         THEN /\ construction' = [construction EXCEPT !.pc = "config"]
              /\ ldap_version' = 2
         ELSE /\ construction' = [construction EXCEPT !.pc = "failed"]
              /\ UNCHANGED ldap_version
    /\ UNCHANGED <<ldap_load_groups, ldap_groups, groups_writer, frame>>

\* lines 50-59: the settings; _ldap_use_ssl is False when get raises
InitConfig ==
    /\ construction.pc = "config"
    /\ ldap_load_groups' \in BOOLEAN
    /\ construction' = [construction EXCEPT
                           !.pc = "tls",
                           !.use_ssl = (construction.use_ssl_conf = "True")]
    /\ UNCHANGED <<ldap_version, ldap_groups, groups_writer, frame>>

\* lines 62-73: self._tls is assigned when the five settings resolve, ldap3 is
\* bound and ldap3.Tls accepts them (r)
TlsBuilt(c, r) ==
    /\ c.resolvable = TlsFields
    /\ c.has_ldap3
    /\ r = "ok"

\* lines 60-76: KeyError is passed over (lines 74-75), so is every other
\* exception (line 76, a handler without a body); __init__ returns
InitTls ==
    /\ construction.pc = "tls"
    /\ \E r \in CallOutcomes :
          construction' = [construction EXCEPT
                             !.pc = "constructed",
                             !.tls = construction.use_ssl /\ TlsBuilt(construction, r)]
    /\ UNCHANGED <<ldap_version, ldap_load_groups, ldap_groups, groups_writer, frame>>

\* lines 164-166 as spelled: self._ldap_version is read, then _login2 or _login3
\* is looked up as a name of the module, where the file defines neither
DispatchUnresolved(f) ==
    IF ldap_version = Unassigned
        THEN Raise(f, "AttributeError")
        ELSE Raise(f, "NameError")

LoginUnresolved(t) ==
    /\ construction.pc = "constructed"
    /\ frame[t].pc \in {"idle", "done"}
    /\ frame[t].calls < MaxCalls
    /\ \E c \in Credentials :
          frame' = [frame EXCEPT ![t] = DispatchUnresolved(LoginDispatch(frame[t], c))]
    /\ UNCHANGED <<ldap_version, ldap_load_groups, ldap_groups, groups_writer, construction>>

----------------------------------------------------------------------------
(* Specifications *)

Backend(t) ==
    \/ L2InitReader(t)
    \/ L2BindReader(t)
    \/ L2Search(t)
    \/ L2UnbindReader(t)
    \/ L2InitUser(t)
    \/ L2BindUser(t)
    \/ L2LoadGroups(t)
    \/ L2LogGroups(t)
    \/ L2UnbindUser(t)
    \/ L3Connect(t)
    \/ L3BindReader(t)
    \/ L3Search(t)
    \/ L3UnbindReader(t)
    \/ L3ConnectUser(t)
    \/ L3BindUser(t)
    \/ L3LoadGroups(t)
    \/ L3UnbindUser(t)

\* one caller: the calls of login follow one another
Caller == CHOOSE t \in Threads : \A u \in Threads : t <= u

Next ==
    \/ Login(Caller)
    \/ Backend(Caller)

Spec == Init /\ [][Next]_vars

\* a request thread of the server serves one request: it calls login once
LoginOnce(t) == frame[t].calls = 0 /\ Login(t)

\* the request threads run concurrently on the one validator instance
NextConc ==
    \E t \in Threads :
        \/ LoginOnce(t)
        \/ Backend(t)

SpecConc == Init /\ [][NextConc]_vars

\* the construction of the instance, then the calls of login, statement by
\* statement as the file has them
NextConstruct ==
    \/ InitImport
    \/ InitConfig
    \/ InitTls
    \/ LoginUnresolved(Caller)

SpecConstruct == InitNew /\ [][NextConstruct]_vars

----------------------------------------------------------------------------
(* Vocabulary of the properties *)

\* the call of thread t has ended: login has returned or raised
Ended(f) == f.pc = "done"
Returned(f, v) == Ended(f) /\ f.outcome = [kind |-> "return", value |-> v]
Raised(f) == Ended(f) /\ f.outcome.kind = "raise"

\* the operations of the call on connection conn
OpsOn(f, conn) == {i \in DOMAIN f.ops : f.ops[i].conn = conn}
\* the call did operation op on connection conn with outcome r
Did(f, op, conn, r) ==
    \E i \in OpsOn(f, conn) : f.ops[i].op = op /\ f.ops[i].result = r

\* the directory accepted a bind with the DN of the first entry and the caller's password
UserBindAccepted(f) ==
    /\ Len(f.res) > 0
    /\ \E i \in OpsOn(f, "user") :
          /\ f.ops[i].op = "bind"
          /\ f.ops[i].dn = f.res[1].dn
          /\ f.ops[i].secret = f.password
          /\ f.ops[i].result = "ok"

\* setting up or binding the reader connection failed
ReaderBindFailed(f) ==
    \E i \in OpsOn(f, "reader") :
        f.ops[i].op \in {"connect", "bind"} /\ f.ops[i].result # "ok"

\* the search went through and matched no entry
SearchFoundNothing(f) ==
    \E i \in OpsOn(f, "reader") :
        f.ops[i].op = "search" /\ f.ops[i].result = "ok" /\ f.ops[i].n = 0

\* the call of thread t assigned self._ldap_groups last
Stored(t) == frame[t].calls > 0 /\ groups_writer = <<t, frame[t].calls>>

\* the group set the call derives from its own search result
OwnGroups(f) == IF ldap_version = 2 THEN Groups2(f.res[1]) ELSE Groups3(f.res[1])

----------------------------------------------------------------------------
(* Properties *)

\* C1: login returns the non-empty username only if, in the same call, a bind with
\* the DN of the first entry found and the caller's password was accepted; the
\* reader bind alone never makes it return the username.
C1_UsernameOnlyAfterUserBind ==
    \A t \in Threads :
        (frame[t].outcome.kind = "return" /\ frame[t].outcome.value # "")
            => /\ UserBindAccepted(frame[t])
               /\ frame[t].outcome.value = frame[t].login

C1_Witness ==
    \E t \in Threads :
        /\ Returned(frame[t], frame[t].login)
        /\ Did(frame[t], "bind", "reader", "ok")
        /\ UserBindAccepted(frame[t])

\* C2: when setting up or binding the reader connection fails, login raises: it
\* returns nothing, issues no search and does nothing on a user connection, with
\* either backend.
C2_ReaderBindFailureRaises ==
    \A t \in Threads :
        ReaderBindFailed(frame[t])
            => /\ Raised(frame[t])
               /\ ~\E i \in OpsOn(frame[t], "reader") : frame[t].ops[i].op = "search"
               /\ OpsOn(frame[t], "user") = {}
               /\ frame[t].user_conn = "none"

C2_Witness ==
    \E t \in Threads :
        /\ Did(frame[t], "bind", "reader", "invalid")
        /\ Raised(frame[t])
        /\ ldap_version = 3

\* C3: a user bind rejected as invalid credentials makes login return the empty
\* string without raising, and in the verify phase nothing but that rejection makes
\* login return the empty string.
C3_OnlyInvalidCredentialsReturnsEmpty ==
    \A t \in Threads :
        /\ (Ended(frame[t]) /\ Did(frame[t], "bind", "user", "invalid"))
              => Returned(frame[t], "")
        /\ (Returned(frame[t], "") /\ Len(frame[t].res) > 0)
              => Did(frame[t], "bind", "user", "invalid")

\* C4: a failure other than invalid credentials in the verify phase, after the
\* reader bind and the search went through, makes login raise, not return.
C4_VerifyFailureRaises ==
    \A t \in Threads :
        (Ended(frame[t]) /\ \E i \in OpsOn(frame[t], "user") : frame[t].ops[i].result = "error")
            => frame[t].outcome.kind = "raise"

\* C5: with the reader bind accepted, one entry found, the user bind accepted and
\* no operation failing, login returns the username it was given, whatever the
\* load-groups flag.
C5_SuccessReturnsLogin ==
    \A t \in Threads :
        ( /\ Ended(frame[t])
          /\ Did(frame[t], "bind", "reader", "ok")
          /\ Len(frame[t].res) = 1
          /\ UserBindAccepted(frame[t])
          /\ \A i \in DOMAIN frame[t].ops : frame[t].ops[i].result = "ok" )
            => Returned(frame[t], frame[t].login)

\* C6: when the search matches no entry, login returns the empty string without
\* raising, and the call opens no second connection and attempts no user bind.
C6_NoEntryReturnsEmpty ==
    \A t \in Threads :
        SearchFoundNothing(frame[t])
            => /\ Returned(frame[t], "")
               /\ OpsOn(frame[t], "user") = {}
               /\ frame[t].user_conn = "none"

C6_Witness ==
    \E t \in Threads :
        /\ SearchFoundNothing(frame[t])
        /\ Did(frame[t], "bind", "reader", "ok")
        /\ Returned(frame[t], "")
        /\ ldap_version = 2

\* C7: when a call of login has ended, however it ended, neither its reader
\* connection nor its user connection is still open.
C7_ConnectionsClosedAtEnd ==
    \A t \in Threads :
        Ended(frame[t])
            => /\ frame[t].reader_conn \notin {"open", "bound"}
               /\ frame[t].user_conn \notin {"open", "bound"}

\* C8: under concurrent calls for different users, a successful login with
\* load-groups on ends with the group set of its own entry in the instance, as it
\* would had the call run alone.
C8_OwnGroupsAtReturn ==
    \A t \in Threads :
        ( /\ frame[t].login # ""
          /\ \A u \in Threads \ {t} : frame[u].login # frame[t].login
          /\ Returned(frame[t], frame[t].login)
          /\ ldap_load_groups )
            => frame[t].groups_at_end = [defined |-> TRUE, value |-> OwnGroups(frame[t])]

\* C9 as stated: the group set is stored only after the user bind of the same call
\* was accepted, and a call that returns the empty string or raises has stored none.
C9_NoStoreUnlessLoginSucceeds ==
    \A t \in Threads :
        /\ Stored(t) => UserBindAccepted(frame[t])
        /\ (Returned(frame[t], "") \/ Raised(frame[t])) => ~Stored(t)

\* C9 as amended: the group set is stored only after the user bind of the same
\* call was accepted; a call whose user bind was rejected, failed or never
\* attempted stores none.
C9_StoreOnlyAfterUserBind ==
    \A t \in Threads : Stored(t) => UserBindAccepted(frame[t])

C9_Witness ==
    \E t \in Threads :
        /\ Stored(t)
        /\ UserBindAccepted(frame[t])
        /\ ldap_groups = [defined |-> TRUE, value |-> OwnGroups(frame[t])]

\* C10: after the latest call of a sequence of calls, the group set of the
\* instance is absent or was stored by that latest call.
C10_GroupsFromLatestCall ==
    (Ended(frame[Caller]) /\ ldap_groups.defined) => Stored(Caller)

\* the value of the leading relative-DN component of a membership value: the
\* characters after the first "=" of the component before the first ","
RECURSIVE AfterEquals(_)
AfterEquals(s) ==
    IF s = <<>> THEN <<>>
    ELSE IF Head(s) = "=" THEN Tail(s)
    ELSE AfterEquals(Tail(s))
LeadingValue(v) == AfterEquals(SplitFirst(v))
LeadingValues(entry) == {LeadingValue(entry.memberOf[i]) : i \in DOMAIN entry.memberOf}

\* C11: with load-groups on, a login that succeeds leaves as the instance's group
\* set the set of the leading relative-DN component values of the membership
\* values of the first entry, without duplicates, with either backend.
C11_GroupsAreLeadingValues ==
    \A t \in Threads :
        (ldap_load_groups /\ Returned(frame[t], frame[t].login) /\ Stored(t))
            => frame[t].groups_at_end =
                   [defined |-> TRUE, value |-> LeadingValues(frame[t].res[1])]

\* the searches the call has issued
Searches(f) == {i \in OpsOn(f, "reader") : f.ops[i].op = "search"}

\* C12: with load-groups off, the search of a call asks for no group-membership
\* attribute, and the instance holds no group set, whatever the directory holds
\* and whatever calls came before.
C12_NoGroupsWhenDisabled ==
    \A t \in Threads :
        ~ldap_load_groups
            => /\ \A i \in Searches(frame[t]) : "memberOf" \notin frame[t].ops[i].attrs
               /\ ~ldap_groups.defined

\* C13: the TLS configuration is all or nothing: when encrypted transport is
\* asked for and one of the five TLS settings does not resolve, construction
\* fails; no instance is constructed with encrypted transport on and no TLS
\* configuration built.
C13_TlsAllOrNothing ==
    (construction.pc = "constructed" /\ construction.use_ssl)
        => /\ construction.resolvable = TlsFields
           /\ construction.tls

\* the call went through the whole sequence itself: reader bind, search with an
\* entry, user bind, every operation answered without failure
FullSequence(f) ==
    /\ Did(f, "bind", "reader", "ok")
    /\ \E i \in Searches(f) : f.ops[i].result = "ok" /\ f.ops[i].n > 0
    /\ UserBindAccepted(f)
    /\ \A i \in DOMAIN f.ops : f.ops[i].result = "ok"

\* one of the directory's answers to the call, or the attribute dictionary of its
\* first entry, accounts for the call not returning the username
OwnFailure(f) ==
    \/ \E i \in DOMAIN f.ops : f.ops[i].result # "ok"
    \/ SearchFoundNothing(f)
    \/ /\ ldap_version = 2 /\ ldap_load_groups
       /\ Len(f.res) > 0 /\ ~f.res[1].hasMemberOf

\* the call and the call before it had the same arguments and the same answers
SameInputs(f) ==
    /\ f.prev.outcome.kind # "none"
    /\ f.login = f.prev.login
    /\ f.password = f.prev.password
    /\ f.ops = f.prev.ops
    /\ f.res = f.prev.res

OutcomeFromOwnCall ==
    \A t \in Threads :
        Ended(frame[t])
            => /\ Returned(frame[t], frame[t].login) => FullSequence(frame[t])
               /\ ~Returned(frame[t], frame[t].login) => OwnFailure(frame[t])
               /\ SameInputs(frame[t]) => frame[t].outcome = frame[t].prev.outcome

\* the settings the instance holds as variables; the reader DN, the reader secret
\* and the filter template are fixed values of the model
ConfigUnchanged ==
    /\ ldap_version' = ldap_version
    /\ ldap_load_groups' = ldap_load_groups

\* C14: the outcome of a call follows from the configuration, the call's own
\* arguments and the directory's answers to that call: a call returns the
\* username only after its own full sequence, fails only on one of its own
\* answers, and ends as the call before it when arguments and answers are the
\* same; no step changes a configuration field.
C14_OutcomeFromOwnCall == []OutcomeFromOwnCall /\ [][ConfigUnchanged]_vars

C14_Witness ==
    \E t \in Threads :
        /\ ldap_load_groups
        /\ SameInputs(frame[t])
        /\ frame[t].prev.outcome.kind = "return"
        /\ Returned(frame[t], frame[t].login)

\* the group sets a call can derive from an entry of the directory
DerivedGroups == {Groups2(e) : e \in {x \in Entries : x.hasMemberOf}}

\* C15: no log line of a call holds the reader secret or the caller's password:
\* a line holds the DN of the first entry found or a group set derived from the
\* directory's membership values, nothing else.
C15_NoSecretInLog ==
    \A t \in Threads :
        \A i \in DOMAIN frame[t].log :
            LET l == frame[t].log[i]
            IN  /\ l.dn \notin {ldap_secret, frame[t].password}
                /\ \/ l = LogUser(frame[t].res[1].dn)
                   \/ /\ l.line = "LDAP Auth groups of user"
                      /\ l.dn = ""
                      /\ l.groups \in DerivedGroups

C15_Witness ==
    \E t \in Threads :
        /\ Ended(frame[t])
        /\ Did(frame[t], "bind", "reader", "ok")
        /\ UserBindAccepted(frame[t])
        /\ \E i, j \in DOMAIN frame[t].log :
              /\ frame[t].log[i].line = "LDAP Auth user"
              /\ frame[t].log[j].line = "LDAP Auth groups of user"

\* operation i of the call is op on connection conn and was answered "ok"
OkAt(f, i, op, conn) ==
    /\ f.ops[i].op = op
    /\ f.ops[i].conn = conn
    /\ f.ops[i].result = "ok"

\* C16: within a call the search follows an accepted reader bind, every
\* operation on the user connection follows a search that returned an entry and
\* the closing of the reader connection, and the reader connection is closed
\* while the user connection exists.
C16_ReaderBindSearchUserBind ==
    \A t \in Threads :
        LET f == frame[t]
        IN  /\ \A i \in Searches(f) :
                  \E j \in 1..(i - 1) : OkAt(f, j, "bind", "reader")
            /\ \A i \in OpsOn(f, "user") :
                  /\ \E j \in 1..(i - 1) : OkAt(f, j, "search", "reader") /\ f.ops[j].n > 0
                  /\ \E j \in 1..(i - 1) : OkAt(f, j, "unbind", "reader")
                  /\ \A j \in OpsOn(f, "reader") : j < i
            /\ f.user_conn # "none" => f.reader_conn = "closed"

C16_Witness ==
    \E t \in Threads :
        /\ Did(frame[t], "bind", "user", "ok")
        /\ Did(frame[t], "unbind", "reader", "ok")
        /\ frame[t].user_conn = "bound"
        /\ frame[t].reader_conn = "closed"

\* the search of the call raised an exception
SearchFailed(f) == \E i \in Searches(f) : f.ops[i].result # "ok"

\* C17: when the search raises after an accepted reader bind, login raises: it
\* does not return the empty string and does nothing on a user connection.
C17_SearchFailureRaises ==
    \A t \in Threads :
        (Did(frame[t], "bind", "reader", "ok") /\ SearchFailed(frame[t]))
            => /\ Raised(frame[t])
               /\ OpsOn(frame[t], "user") = {}
               /\ frame[t].user_conn = "none"

C17_Witness ==
    \E t \in Threads :
        /\ Did(frame[t], "bind", "reader", "ok")
        /\ SearchFailed(frame[t])
        /\ Raised(frame[t])
        /\ ldap_version = 3

\* the call before this one had the same arguments, its search returned the first
\* entry of this call's search and nothing else, and the directory answered its
\* operations as it answered this call's
FirstEntryAlone(f) ==
    /\ f.prev.outcome.kind # "none"
    /\ f.login = f.prev.login
    /\ f.password = f.prev.password
    /\ f.prev.res = <<f.res[1]>>
    /\ Len(f.ops) = Len(f.prev.ops)
    /\ \A i \in DOMAIN f.ops :
          /\ f.ops[i].op = f.prev.ops[i].op
          /\ f.ops[i].conn = f.prev.ops[i].conn
          /\ f.ops[i].result = f.prev.ops[i].result

\* C18: when the search returns more than one entry, the call goes on with the
\* first: every user bind carries the DN of the first entry, a group set the
\* call stores is the one of the first entry, the call ends as a call whose
\* search returned the first entry alone, and it raises only on a failure of its
\* own.
C18_FirstEntryUsed ==
    \A t \in Threads :
        LET f == frame[t]
        IN  Len(f.res) > 1
                => /\ \A i \in OpsOn(f, "user") :
                         f.ops[i].op = "bind" => f.ops[i].dn = f.res[1].dn
                   /\ Stored(t) => ldap_groups.value = OwnGroups(f)
                   /\ (Ended(f) /\ FirstEntryAlone(f)) => f.outcome = f.prev.outcome
                   /\ Raised(f) => OwnFailure(f)

C18_Witness ==
    \E t \in Threads :
        /\ Len(frame[t].res) > 1
        /\ frame[t].res[1] # frame[t].res[Len(frame[t].res)]
        /\ FirstEntryAlone(frame[t])
        /\ UserBindAccepted(frame[t])
        /\ Stored(t)
        /\ Returned(frame[t], frame[t].login)

\* the dispatch of the call failed: an exception of the name lookup in login, no
\* statement of a backend reached
DispatchFailed(f) ==
    /\ Raised(f)
    /\ f.outcome.value \in {"AttributeError", "NameError"}
    /\ f.ops = <<>>

\* C19: construction selects one backend: ldap3 when ldap3 is installed,
\* python-ldap when only python-ldap is, and it fails when neither is; every
\* call of login on the constructed instance gets through the dispatch to that
\* backend.
C19_OneBackendServesLogin ==
    /\ construction.pc = "constructed"
          => /\ construction.has_ldap3 => ldap_version = 3
             /\ (~construction.has_ldap3 /\ construction.has_ldap) => ldap_version = 2
             /\ construction.has_ldap3 \/ construction.has_ldap
    /\ \A t \in Threads :
          frame[t].calls > 0
              => /\ construction.pc = "constructed"
                 /\ ~DispatchFailed(frame[t])

====
